---- MODULE Spec2Model ----
(***************************************************************************)
(* Model of pPrecel/warden: the defaulting admission webhook               *)
(* (internal/admission/defaulting.go) and the webhook certificate secret   *)
(* reconciliation (package certs).                                         *)
(***************************************************************************)
EXTENDS Integers, Sequences, FiniteSets, TLC

(***************************************************************************)
(* Bounds of the model.                                                    *)
(***************************************************************************)
\* number of request slots; Init of Spec puts one request in flight
MaxReq == 2

\* the number of consecutive runs of EnsureWebhookSecret (process starts)
MaxRuns == 2

Reqs == 1..MaxReq

(***************************************************************************)
(* Program constants.                                                      *)
(***************************************************************************)
PodType == "Pod"

StatusBadRequest == 400
StatusInternalServerError == 500
StatusRequestTimeout == 408
\* the code of admission.Allowed's result
StatusOK == 200

\* validate.ValidationResult values; Unrecognized stands for every value
\* outside the four the switch of LabelForValidationResult names
NoAction == "NoAction"
Invalid == "Invalid"
Valid == "Valid"
ServiceUnavailable == "ServiceUnavailable"
Unrecognized == {"Unknown", ""}
ValidationResults == {NoAction, Invalid, Valid, ServiceUnavailable} \cup Unrecognized

\* pkg.PodValidationLabel and the pkg.ValidationStatus* values
PodValidationLabel == "pods.warden.kyma-project.io/validate"
ValidationStatusReject == "reject"
ValidationStatusSuccess == "success"
ValidationStatusPending == "pending"

(***************************************************************************)
(* Requests.  The raw object of a request is modelled by what Decode and   *)
(* the JSON diff of PatchResponseFromRaw see of it: whether it is empty,    *)
(* whether it decodes, and the metadata.labels member of the JSON object    *)
(* (absent, or a string map).                                              *)
(***************************************************************************)
OtherLabel == "app"
LabelKeys == {PodValidationLabel, OtherLabel}
PolicyValues == {ValidationStatusReject, ValidationStatusSuccess, ValidationStatusPending, "stale"}

\* a label map: a function from a subset of LabelKeys to strings
LabelMaps ==
    LET withPolicy == { [k \in {PodValidationLabel} |-> v] : v \in PolicyValues }
        withBoth == { [k \in LabelKeys |-> IF k = PodValidationLabel THEN v ELSE "web"] : v \in PolicyValues }
    IN {<<>>, [k \in {OtherLabel} |-> "web"]} \cup withPolicy \cup withBoth

\* metadata.labels of a JSON object or of a Pod: nil/absent, or a map
NilLabels == [present |-> FALSE, map |-> <<>>]
Labels == {NilLabels} \cup { [present |-> TRUE, map |-> m] : m \in LabelMaps }

RawObjects ==
    {[form |-> "empty", labels |-> NilLabels], [form |-> "garbage", labels |-> NilLabels]}
    \cup { [form |-> "pod", labels |-> l] : l \in Labels }

Requests == { [kind |-> k, raw |-> o] : k \in {PodType, "Deployment"}, o \in RawObjects }

NoRequest == [kind |-> "", raw |-> [form |-> "empty", labels |-> NilLabels]]

(***************************************************************************)
(* admission.Response: allowed flag, result code, and the label part of    *)
(* the JSON patch.                                                          *)
(***************************************************************************)
\* the zero value of admission.Response (var resp admission.Response)
ZeroResponse == [allowed |-> FALSE, code |-> 0, patches |-> {}]

Errored(code) == [allowed |-> FALSE, code |-> code, patches |-> {}]

Allowed == [allowed |-> TRUE, code |-> StatusOK, patches |-> {}]

\* ctxTimeout.Err() is non-nil once Done is closed, so the timeout case returns
TimeoutResponse == Errored(StatusRequestTimeout)

(***************************************************************************)
(* LabelForValidationResult, labelPod, json.Marshal and the patch.          *)
(***************************************************************************)
LabelForValidationResultMut(result) ==
    CASE result = NoAction -> ""
      [] result = Invalid -> ValidationStatusReject
      [] result = Valid -> ValidationStatusSuccess
      [] result = ServiceUnavailable -> ValidationStatusPending
      [] OTHER -> ""
LabelForValidationResult(result) ==
    CASE result = NoAction -> ""
      [] result = Invalid -> ValidationStatusReject
      [] result = Valid -> ValidationStatusSuccess
      [] result = ServiceUnavailable -> ValidationStatusPending
      [] OTHER -> ValidationStatusPending

\* m with key k set to v
SetLabel(m, k, v) == [x \in (DOMAIN m) \cup {k} |-> IF x = k THEN v ELSE m[x]]

\* labelPod on the labels of the pod; the input pod is left alone, the result
\* is the labels of the returned pod
labelPodMut(result, podLabels) ==
    LET labelToApply == LabelForValidationResult(result)
    IN IF labelToApply = "" THEN podLabels
       ELSE IF podLabels.present /\ PodValidationLabel \in DOMAIN podLabels.map THEN podLabels
       ELSE [present |-> TRUE,
             map |-> SetLabel(IF podLabels.present THEN podLabels.map ELSE <<>>,
                              PodValidationLabel, labelToApply)]
\* The heap labelPod works on: pods[p] is the Labels field of the pod at
\* pointer p, the pointer of a map or "nil"; maps[m] is the map at pointer m.
\* The decoded pod is at InputPod, its map, if it has one, at InputMap.
InputPod == "p0"
InputMap == "m0"
CopyPod == "p1"
CopyMap == "m1"
MemOf(podLabels) ==
    [pods |-> [p \in {InputPod} |-> IF podLabels.present THEN InputMap ELSE "nil"],
     maps |-> [m \in (IF podLabels.present THEN {InputMap} ELSE {}) |-> podLabels.map]]

\* the labels of the pod at pointer p
LabelsAt(mem, p) ==
    IF mem.pods[p] = "nil" THEN NilLabels
    ELSE [present |-> TRUE, map |-> mem.maps[mem.pods[p]]]

\* f with x mapped to v
Store(f, x, v) == [y \in (DOMAIN f) \cup {x} |-> IF y = x THEN v ELSE f[y]]

\* pod.DeepCopy(): a new pod at CopyPod; a non-nil map is copied to a new map
\* at CopyMap, a nil map stays nil
DeepCopy(mem, p) ==
    IF mem.pods[p] = "nil"
    THEN [pods |-> Store(mem.pods, CopyPod, "nil"), maps |-> mem.maps]
    ELSE [pods |-> Store(mem.pods, CopyPod, CopyMap),
          maps |-> Store(mem.maps, CopyMap, mem.maps[mem.pods[p]])]

\* labelPod with a copy of the pod struct alone: the copy's Labels field is
\* the map of its input
labelPodMemShallow(result, mem) ==
    LET labelToApply == LabelForValidationResult(result)
    IN IF labelToApply = "" THEN [ret |-> InputPod, mem |-> mem]
       ELSE LET copied == [pods |-> Store(mem.pods, CopyPod, mem.pods[InputPod]),
                           maps |-> mem.maps]
                made == IF copied.pods[CopyPod] = "nil"
                        THEN [pods |-> Store(copied.pods, CopyPod, CopyMap),
                              maps |-> Store(copied.maps, CopyMap, <<>>)]
                        ELSE copied
                m == made.pods[CopyPod]
            IN [ret |-> CopyPod,
                mem |-> [pods |-> made.pods,
                         maps |-> Store(made.maps, m,
                                        SetLabel(made.maps[m], PodValidationLabel, labelToApply))]]

\* labelPod on the heap: the pointer it returns and the heap it leaves
labelPodMem(result, mem) ==
    LET labelToApply == LabelForValidationResult(result)
    IN IF labelToApply = "" THEN [ret |-> InputPod, mem |-> mem]
       ELSE LET copied == DeepCopy(mem, InputPod)
                made == IF copied.pods[CopyPod] = "nil"
                        THEN [pods |-> Store(copied.pods, CopyPod, CopyMap),
                              maps |-> Store(copied.maps, CopyMap, <<>>)]
                        ELSE copied
                m == made.pods[CopyPod]
            IN [ret |-> CopyPod,
                mem |-> [pods |-> made.pods,
                         maps |-> Store(made.maps, m,
                                        SetLabel(made.maps[m], PodValidationLabel, labelToApply))]]

\* labelPod on the labels of the pod: the labels of the pod it returns
labelPod(result, podLabels) ==
    LET out == labelPodMem(result, MemOf(podLabels))
    IN LabelsAt(out.mem, out.ret)

\* Decode of a raw pod object: the labels member; a JSON object {} decodes to an
\* empty non-nil map, an absent member to nil
Decode(raw) == raw.labels

\* json.Marshal: ObjectMeta.Labels is tagged omitempty, so nil and empty maps
\* are both left out of the JSON object
Marshal(podLabels) ==
    IF podLabels.present /\ DOMAIN podLabels.map # {} THEN podLabels ELSE NilLabels

\* PatchResponseFromRaw -> jsonpatch.CreatePatch(raw, marshalled), restricted to
\* metadata.labels: a member missing on the left is added whole, members of
\* two objects are compared key by key
CreatePatch(a, b) ==
    IF ~a.present /\ ~b.present THEN {}
    ELSE IF ~a.present THEN {[op |-> "add", path |-> <<"labels">>, value |-> b.map]}
    ELSE IF ~b.present THEN {[op |-> "remove", path |-> <<"labels">>, value |-> <<>>]}
    ELSE { [op |-> "remove", path |-> <<"labels", k>>, value |-> <<>>] :
               k \in (DOMAIN a.map) \ (DOMAIN b.map) }
         \cup { [op |-> "add", path |-> <<"labels", k>>, value |-> [x \in {k} |-> b.map[k]]] :
               k \in (DOMAIN b.map) \ (DOMAIN a.map) }
         \cup { [op |-> "replace", path |-> <<"labels", k>>, value |-> [x \in {k} |-> b.map[k]]] :
               k \in { x \in (DOMAIN a.map) \cap (DOMAIN b.map) : a.map[x] # b.map[x] } }

PatchResponseFromRaw(rawLabels, marshalled) ==
    [allowed |-> TRUE, code |-> 0, patches |-> CreatePatch(rawLabels, marshalled)]

(***************************************************************************)
(* Package certs: the bytes a secret holds, and their verification.         *)
(***************************************************************************)
CertFile == "server-cert.pem"
KeyFile == "server-key.pem"

\* verifyCertificate checks the certificate at now + 10 days
VerifyAheadDays == 10
\* cert.GenerateSelfSignedCertKey: the certificate is valid for a year
FreshCertDays == 365

\* A byte string, by what the parsers make of it:
\*   form     "empty", "junk" (no PEM block), "cert" (CERTIFICATE blocks),
\*            "key" (a private-key block)
\*   wellFormed  the DER inside the block parses (x509.ParseCertificate,
\*            x509.ParsePKCS1PrivateKey)
\*   daysLeft for a certificate, NotAfter - now in days
\*   chains   for a certificate, it verifies against the pool made of its own bytes
\*   keyOK    for a key, rsa.PrivateKey.Validate succeeds
\*   names    for a certificate, <<the host it was generated for (its common
\*            name), the set of its alternative names>>
Bytes(form, wellFormed, daysLeft, chains, keyOK, names) ==
    [form |-> form, wellFormed |-> wellFormed, daysLeft |-> daysLeft, chains |-> chains,
     keyOK |-> keyOK, names |-> names]

EmptyBytes == Bytes("empty", FALSE, 0, FALSE, FALSE, <<>>)
JunkBytes == Bytes("junk", FALSE, 0, FALSE, FALSE, <<>>)
CertBytes(wellFormed, daysLeft, chains) == Bytes("cert", wellFormed, daysLeft, chains, FALSE, <<>>)
KeyBytes(wellFormed, keyOK) == Bytes("key", wellFormed, 0, FALSE, keyOK, <<>>)

\* the bytes found under the certificate key of a stored secret
StoredCerts ==
    {EmptyBytes, JunkBytes, KeyBytes(TRUE, TRUE), CertBytes(FALSE, FreshCertDays, TRUE),
     CertBytes(TRUE, FreshCertDays, FALSE)}
    \cup { CertBytes(TRUE, d, TRUE) : d \in {0 - 3, 5, VerifyAheadDays, FreshCertDays} }

\* the bytes found under the key key of a stored secret
StoredKeys ==
    {EmptyBytes, JunkBytes, CertBytes(TRUE, FreshCertDays, TRUE), KeyBytes(FALSE, FALSE),
     KeyBytes(TRUE, FALSE), KeyBytes(TRUE, TRUE)}

\* verifyCertificate: nil ("ok") or an error ("err"): cert.ParseCertsPEM and
\* cert.NewPoolFromBytes, then certificate[0].Verify at now + 10 days with the
\* bytes as roots
verifyCertificate(c) ==
    IF ~(c.form = "cert" /\ c.wellFormed) THEN "err"
    ELSE IF ~(c.chains /\ c.daysLeft >= VerifyAheadDays) THEN "err"
    ELSE "ok"

\* verifyKey: nil ("ok"), an error ("err"), or a nil-pointer panic: pem.Decode
\* returns a nil block for bytes without a PEM block and b.Bytes dereferences it
verifyKey(k) ==
    IF k.form \in {"empty", "junk"} THEN "panic"
    ELSE IF ~(k.form = "key" /\ k.wellFormed) THEN "err"
    ELSE IF ~k.keyOK THEN "err"
    ELSE "ok"

\* secret data: nil, or a map from keys to bytes
NilData == [present |-> FALSE, map |-> <<>>]

hasRequiredKeys(data) ==
    IF ~data.present THEN FALSE
    ELSE \A key \in {CertFile, KeyFile} : key \in DOMAIN data.map

\* isValidSecret: "valid", "invalid", or "panic"
isValidSecret(s) ==
    IF ~hasRequiredKeys(s.data) THEN "invalid"
    ELSE IF verifyCertificate(s.data.map[CertFile]) # "ok" THEN "invalid"
    ELSE LET k == verifyKey(s.data.map[KeyFile])
         IN IF k = "ok" THEN "valid" ELSE IF k = "panic" THEN "panic" ELSE "invalid"

\* alternative names whose host name lacks the svc part
serviceAltNamesMut(serviceName, namespace) ==
    LET namespacedServiceName == <<serviceName, namespace>>
        commonName == namespacedServiceName \o <<"svc">>
        serviceHostname == <<serviceName, namespace, "cluster", "local">>
    IN <<commonName, <<serviceName>>, namespacedServiceName, serviceHostname>>

\* serviceAltNames; a name is the sequence of its dot-separated parts
serviceAltNames(serviceName, namespace) ==
    LET namespacedServiceName == <<serviceName, namespace>>
        commonName == namespacedServiceName \o <<"svc">>
        serviceHostname == <<serviceName, namespace, "svc", "cluster", "local">>
    IN <<commonName, <<serviceName>>, namespacedServiceName, serviceHostname>>

\* a generator whose certificate expires within the verification horizon
generateWebhookCertificatesMut(serviceName, namespace) ==
    LET altNames == serviceAltNames(serviceName, namespace)
    IN [cert |-> Bytes("cert", TRUE, VerifyAheadDays - 1, TRUE, FALSE,
                       <<altNames[1], {altNames[i] : i \in 1..Len(altNames)}>>),
        key |-> KeyBytes(TRUE, TRUE)]

\* generateWebhookCertificates: the certificate and the key of
\* cert.GenerateSelfSignedCertKey(altNames[0], nil, altNames)
generateWebhookCertificates(serviceName, namespace) ==
    LET altNames == serviceAltNames(serviceName, namespace)
    IN [cert |-> Bytes("cert", TRUE, FreshCertDays, TRUE, FALSE,
                       <<altNames[1], {altNames[i] : i \in 1..Len(altNames)}>>),
        key |-> KeyBytes(TRUE, TRUE)]

\* the arguments EnsureWebhookSecret is called with
SecretNames == {"warden-webhook", "admission-cert"}
Namespaces == {"default", "kyma-system"}
ServiceNames == {"warden-admission", "warden-operator"}

\* a deployment UID; NoUID when the namespace has no deployment of that name
NoUID == <<>>
DeploymentUID(namespace) == <<"uid", namespace>>

\* values of the environment variable that switches owner references on:
\* unset, and three settings of which buildOwnerRefs takes only "true"
OwnerRefEnv == {"", "false", "true", "True"}

\* the owner reference buildOwnerRefs makes of the deployment
DeploymentName == "warden-admission"
OwnerRef(uid) ==
    [apiVersion |-> "apps/v1", kind |-> "Deployment", name |-> DeploymentName, uid |-> uid]

\* buildSecret's result for a generated pair and owner references
BuiltSecretMut(name, namespace, pair, ownerRefs) ==
    [name |-> name, namespace |-> "default", ownerRefs |-> ownerRefs,
     data |-> [present |-> TRUE,
               map |-> [k \in {CertFile, KeyFile} |-> IF k = CertFile THEN pair.cert ELSE pair.key]],
     meta |-> "", rv |-> 0]
BuiltSecret(name, namespace, pair, ownerRefs) ==
    [name |-> name, namespace |-> namespace, ownerRefs |-> ownerRefs,
     data |-> [present |-> TRUE,
               map |-> [k \in {CertFile, KeyFile} |-> IF k = CertFile THEN pair.cert ELSE pair.key]],
     meta |-> "", rv |-> 0]

(***************************************************************************)
(* State.                                                                  *)
(***************************************************************************)
VARIABLES
    decoder,            \* w.decoder: "nil" after NewDefaultingWebhook, "set" after InjectDecoder
    crashed,            \* the process died of an unrecovered panic
    req,                \* req[r]: the admission request of invocation r
    ppc,                \* ppc[r]: where the goroutine running Handle is
    cpc,                \* cpc[r]: where the child goroutine of handleWithTimeout is
    ctxErr,             \* ctxErr[r]: why ctxTimeout is done, "none" while it is not
    timerAt,            \* timerAt[r]: cpc[r] at the moment the deadline timer fired, "none" before
    vres,               \* vres[r]: what ValidatePod returned
    hret,               \* hret[r]: the value w.handle returns
    resp,               \* resp[r]: the variable resp shared by handleWithTimeout and its child
    delivered,          \* delivered[r]: the response Handle returned to its caller
    via,                \* via[r]: the select case Handle returned through
    calls,              \* calls[r]: how often the decoder, client.Get and ValidatePod were invoked
    storedAfterReturn,  \* storedAfterReturn[r]: the child wrote resp after Handle had returned
    nsres,              \* nsres[r]: how client.Get of the namespace ended: "none", "ok", "err"
    podmem,             \* podmem[r]: the pointer labelPod returned and the heap it left
    args,               \* secretName, secretNamespace, serviceName of EnsureWebhookSecret
    addOwnerRef,        \* the value of the environment variable ADDMISSION_ADD_CERT_OWNER_REF
    deployment,         \* deployment[ns]: the UID of the deployment of that name in namespace ns
    store,              \* the secret of that name in the API server
    epc,                \* where EnsureWebhookSecret is
    eRead,              \* how the read of the secret ended
    eGot,               \* the secret as client.Get returned it
    eSecret,            \* the local secret object of EnsureWebhookSecret
    eNew,               \* the secret buildSecret returned
    eBuild,             \* how buildSecret ended
    eErr,               \* the error EnsureWebhookSecret returns, "nil" for none
    writes,             \* the Create and Update calls issued, in order
    deployGets,         \* the number of reads of the deployment in this run
    run,                \* the number of the current run of EnsureWebhookSecret
    prevErr,            \* what the previous run returned, "none" in the first
    storeAtStart        \* the store when the current run started

handleVars == <<decoder, req, ppc, cpc, ctxErr, timerAt, vres, hret, resp, delivered,
                via, calls, storedAfterReturn, nsres, podmem>>

certVars == <<args, addOwnerRef, deployment, store, epc, eRead, eGot, eSecret, eNew, eBuild, eErr,
              writes, deployGets, run, prevErr, storeAtStart>>

vars == <<crashed, handleVars, certVars>>

NoOutcome == [err |-> FALSE, result |-> "-"]
ValidateOutcomes == {[err |-> TRUE, result |-> "-"]}
                    \cup { [err |-> FALSE, result |-> v] : v \in ValidationResults }

NoCalls == [decode |-> 0, nsget |-> 0, validate |-> 0]

\* labelPod has not been called
NoMem == [ret |-> "nil", mem |-> [pods |-> <<>>, maps |-> <<>>]]

\* child positions at which ValidatePod has not returned yet
BeforeValidatorDone == {"kind", "decode", "nsget", "nsget_wait", "validate", "validate_wait"}

\* NewDefaultingWebhook: the decoder field is left nil
NewDefaultingWebhook == decoder = "nil"

InitHandle(active) ==
    /\ NewDefaultingWebhook
    /\ crashed = FALSE
    /\ \E f \in [active -> Requests] :
          req = [r \in Reqs |-> IF r \in active THEN f[r] ELSE NoRequest]
    /\ ppc = [r \in Reqs |-> IF r \in active THEN "idle" ELSE "unused"]
    /\ cpc = [r \in Reqs |-> "none"]
    /\ ctxErr = [r \in Reqs |-> "none"]
    /\ timerAt = [r \in Reqs |-> "none"]
    /\ vres = [r \in Reqs |-> NoOutcome]
    /\ hret = [r \in Reqs |-> ZeroResponse]
    /\ resp = [r \in Reqs |-> ZeroResponse]
    /\ delivered = [r \in Reqs |-> ZeroResponse]
    /\ via = [r \in Reqs |-> "none"]
    /\ calls = [r \in Reqs |-> NoCalls]
    /\ storedAfterReturn = [r \in Reqs |-> FALSE]
    /\ nsres = [r \in Reqs |-> "none"]
    /\ podmem = [r \in Reqs |-> NoMem]

\* a secret object
Secret(name, namespace, data, ownerRefs, meta, rv) ==
    [name |-> name, namespace |-> namespace, ownerRefs |-> ownerRefs, data |-> data,
     meta |-> meta, rv |-> rv]

NoSecret == Secret("", "", NilData, <<>>, "", 0)
NoStore == [exists |-> FALSE, obj |-> NoSecret]

\* EnsureWebhookSecret is not running
InitCertsOff ==
    /\ args = [name |-> "", namespace |-> "", service |-> ""]
    /\ addOwnerRef = ""
    /\ deployment = [n \in Namespaces |-> NoUID]
    /\ store = NoStore
    /\ epc = "off"
    /\ eRead = "none"
    /\ eGot = NoSecret
    /\ eSecret = NoSecret
    /\ eNew = NoSecret
    /\ eBuild = "none"
    /\ eErr = "nil"
    /\ writes = <<>>
    /\ deployGets = 0
    /\ run = 0
    /\ prevErr = "none"
    /\ storeAtStart = NoStore

Init == InitHandle({1}) /\ InitCertsOff

(***************************************************************************)
(* The webhook.                                                            *)
(***************************************************************************)
InjectDecoder ==
    /\ ~crashed
    /\ decoder = "nil"
    /\ \A r \in Reqs : ppc[r] \in {"unused", "idle"}
    /\ decoder' = "set"
    /\ UNCHANGED certVars
    /\ UNCHANGED <<crashed, req, ppc, cpc, ctxErr, timerAt, vres, hret, resp, delivered,
                   via, calls, storedAfterReturn, nsres, podmem>>

\* Handle -> handleWithLogger -> handleWithTimeMeasure -> handleWithTimeout up to
\* the select: ctxTimeout is made, resp is the zero Response, the child is started
HandleStart(r) ==
    /\ ~crashed
    /\ ppc[r] = "idle"
    /\ ppc' = [ppc EXCEPT ![r] = "select"]
    /\ cpc' = [cpc EXCEPT ![r] = "kind"]
    /\ resp' = [resp EXCEPT ![r] = ZeroResponse]
    /\ UNCHANGED certVars
    /\ UNCHANGED <<decoder, crashed, req, ctxErr, timerAt, vres, hret, delivered, via,
                   calls, storedAfterReturn, nsres, podmem>>

\* the timer of context.WithTimeout fires: Done is closed, Err is DeadlineExceeded
TimerFire(r) ==
    /\ ~crashed
    /\ ppc[r] = "select"
    /\ ctxErr[r] = "none"
    /\ ctxErr' = [ctxErr EXCEPT ![r] = "DeadlineExceeded"]
    /\ timerAt' = [timerAt EXCEPT ![r] = cpc[r]]
    /\ UNCHANGED certVars
    /\ UNCHANGED <<decoder, crashed, req, ppc, cpc, vres, hret, resp, delivered, via,
                   calls, storedAfterReturn, nsres, podmem>>

\* the context the caller passed to Handle is cancelled: ctxTimeout, derived
\* from it, is done with Err Canceled
ParentCtxCancel(r) ==
    /\ ~crashed
    /\ ppc[r] = "select"
    /\ ctxErr[r] = "none"
    /\ ctxErr' = [ctxErr EXCEPT ![r] = "ParentCanceled"]
    /\ UNCHANGED certVars
    /\ UNCHANGED <<decoder, crashed, req, ppc, cpc, timerAt, vres, hret, resp, delivered,
                   via, calls, storedAfterReturn, nsres, podmem>>

\* defer cancel()
Cancel(e) == IF e = "none" THEN "Canceled" ELSE e

\* The select of handleWithTimeout.  A Go select with several ready cases takes
\* one of them at random, and one that blocks takes the first case to become
\* ready; the two steps below are the moment the select is decided, so a step
\* taken with both cases ready is a parent that reached the select that late.
\* a parent that returns resp without waiting for the child's signal
ParentSelectDoneUnsynchronized(r) ==
    /\ ~crashed
    /\ ppc[r] = "select"
    /\ cpc[r] \in {"store", "send"}
    /\ cpc' = [cpc EXCEPT ![r] = IF @ = "send" THEN "exit" ELSE @]
    /\ ppc' = [ppc EXCEPT ![r] = "returned"]
    /\ via' = [via EXCEPT ![r] = "done"]
    /\ delivered' = [delivered EXCEPT ![r] = resp[r]]
    /\ ctxErr' = [ctxErr EXCEPT ![r] = Cancel(ctxErr[r])]
    /\ UNCHANGED certVars
    /\ UNCHANGED <<decoder, crashed, req, timerAt, vres, hret, resp, calls, storedAfterReturn,
                   nsres, podmem>>

\* the done case of a handleWithTimeout that does not defer cancel()
ParentSelectDoneNoCancel(r) ==
    /\ ~crashed
    /\ ppc[r] = "select"
    /\ cpc[r] = "send"
    /\ cpc' = [cpc EXCEPT ![r] = "exit"]
    /\ ppc' = [ppc EXCEPT ![r] = "returned"]
    /\ via' = [via EXCEPT ![r] = "done"]
    /\ delivered' = [delivered EXCEPT ![r] = resp[r]]
    /\ UNCHANGED certVars
    /\ UNCHANGED <<decoder, crashed, req, ctxErr, timerAt, vres, hret, resp, calls,
                   storedAfterReturn, nsres, podmem>>

\* select, case <-done: the child's send is received, then return resp
ParentSelectDone(r) ==
    /\ ~crashed
    /\ ppc[r] = "select"
    /\ cpc[r] = "send"
    /\ cpc' = [cpc EXCEPT ![r] = "exit"]
    /\ ppc' = [ppc EXCEPT ![r] = "returned"]
    /\ via' = [via EXCEPT ![r] = "done"]
    /\ delivered' = [delivered EXCEPT ![r] = resp[r]]
    /\ ctxErr' = [ctxErr EXCEPT ![r] = Cancel(ctxErr[r])]
    /\ UNCHANGED certVars
    /\ UNCHANGED <<decoder, crashed, req, timerAt, vres, hret, resp, calls, storedAfterReturn, nsres, podmem>>

\* select, case <-ctxTimeout.Done(): Err is non-nil, return the 408 response
ParentSelectTimeout(r) ==
    /\ ~crashed
    /\ ppc[r] = "select"
    /\ ctxErr[r] # "none"
    /\ ppc' = [ppc EXCEPT ![r] = "returned"]
    /\ via' = [via EXCEPT ![r] = "timeout"]
    /\ delivered' = [delivered EXCEPT ![r] = TimeoutResponse]
    /\ UNCHANGED certVars
    /\ UNCHANGED <<decoder, crashed, req, cpc, ctxErr, timerAt, vres, hret, resp, calls,
                   storedAfterReturn, nsres, podmem>>

(***************************************************************************)
(* The child goroutine: resp = w.handle(ctxTimeout, req); done <- true     *)
(***************************************************************************)
ChildTo(r, pos, ret) ==
    /\ cpc' = [cpc EXCEPT ![r] = pos]
    /\ hret' = [hret EXCEPT ![r] = ret]

\* handle, the kind check
ChildKindCheck(r) ==
    /\ ~crashed
    /\ cpc[r] = "kind"
    /\ IF req[r].kind # PodType
       THEN ChildTo(r, "store", Errored(StatusBadRequest))
       ELSE ChildTo(r, "decode", hret[r])
    /\ UNCHANGED certVars
    /\ UNCHANGED <<decoder, crashed, req, ppc, ctxErr, timerAt, vres, resp, delivered, via,
                   calls, storedAfterReturn, nsres, podmem>>

\* handle, w.decoder.Decode(req, pod): Decode answers an empty raw object with an
\* error before it touches the receiver; otherwise a nil decoder is dereferenced
\* and the goroutine panics, which ends the process
ChildDecode(r) ==
    /\ ~crashed
    /\ cpc[r] = "decode"
    /\ calls' = [calls EXCEPT ![r].decode = @ + 1]
    /\ IF req[r].raw.form = "empty"
       THEN ChildTo(r, "store", Errored(StatusInternalServerError)) /\ UNCHANGED crashed
       ELSE IF decoder = "nil"
       THEN ChildTo(r, "panic", hret[r]) /\ crashed' = TRUE
       ELSE IF req[r].raw.form = "garbage"
       THEN ChildTo(r, "store", Errored(StatusInternalServerError)) /\ UNCHANGED crashed
       ELSE ChildTo(r, "nsget", hret[r]) /\ UNCHANGED crashed
    /\ UNCHANGED certVars
    /\ UNCHANGED <<decoder, req, ppc, ctxErr, timerAt, vres, resp, delivered, via,
                   storedAfterReturn, nsres, podmem>>

\* Err() of the context handle passes to w.client.Get and to ValidatePod:
\* its ctx parameter, which the child goroutine binds to ctxTimeout
CollaboratorCtx(r) == ctxErr[r]

\* handle, w.client.Get is called
ChildNsGetCall(r) ==
    /\ ~crashed
    /\ cpc[r] = "nsget"
    /\ calls' = [calls EXCEPT ![r].nsget = @ + 1]
    /\ ChildTo(r, "nsget_wait", hret[r])
    /\ UNCHANGED certVars
    /\ UNCHANGED <<decoder, crashed, req, ppc, ctxErr, timerAt, vres, resp, delivered, via,
                   storedAfterReturn, nsres, podmem>>

\* a namespace lookup whose error is dropped
NsGetReturnIgnoresError(r) ==
    /\ ~crashed
    /\ cpc[r] = "nsget_wait"
    /\ \E ok \in BOOLEAN :
          /\ nsres' = [nsres EXCEPT ![r] = IF ok THEN "ok" ELSE "err"]
          /\ ChildTo(r, "validate", hret[r])
    /\ UNCHANGED certVars
    /\ UNCHANGED <<decoder, crashed, req, ppc, ctxErr, timerAt, vres, resp, delivered, via,
                   calls, storedAfterReturn, podmem>>

\* a namespace lookup whose error is answered with status 404
NsGetReturnNotFound(r) ==
    /\ ~crashed
    /\ cpc[r] = "nsget_wait"
    /\ \E ok \in BOOLEAN :
          /\ nsres' = [nsres EXCEPT ![r] = IF ok THEN "ok" ELSE "err"]
          /\ IF ok THEN ChildTo(r, "validate", hret[r])
             ELSE ChildTo(r, "store", Errored(404))
    /\ UNCHANGED certVars
    /\ UNCHANGED <<decoder, crashed, req, ppc, ctxErr, timerAt, vres, resp, delivered, via,
                   calls, storedAfterReturn, podmem>>

\* w.client.Get returns, with the namespace or with an error (not-found included)
NsGetReturn(r) ==
    /\ ~crashed
    /\ cpc[r] = "nsget_wait"
    /\ \E ok \in BOOLEAN :
          /\ nsres' = [nsres EXCEPT ![r] = IF ok THEN "ok" ELSE "err"]
          /\ IF ok THEN ChildTo(r, "validate", hret[r])
             ELSE ChildTo(r, "store", Errored(StatusInternalServerError))
    /\ UNCHANGED certVars
    /\ UNCHANGED <<decoder, crashed, req, ppc, ctxErr, timerAt, vres, resp, delivered, via,
                   calls, storedAfterReturn, podmem>>

\* handle, w.validationSvc.ValidatePod is called
ChildValidateCall(r) ==
    /\ ~crashed
    /\ cpc[r] = "validate"
    /\ calls' = [calls EXCEPT ![r].validate = @ + 1]
    /\ ChildTo(r, "validate_wait", hret[r])
    /\ UNCHANGED certVars
    /\ UNCHANGED <<decoder, crashed, req, ppc, ctxErr, timerAt, vres, resp, delivered, via,
                   storedAfterReturn, nsres, podmem>>

\* handle from the return of ValidatePod to its own return: the error and
\* NoAction exits, labelPod, json.Marshal, PatchResponseFromRaw
HandleResult(request, outcome) ==
    IF outcome.err THEN Errored(StatusInternalServerError)
    ELSE IF outcome.result = NoAction THEN Allowed
    ELSE PatchResponseFromRaw(request.raw.labels,
                              Marshal(labelPod(outcome.result, Decode(request.raw))))

ValidatePodReturn(r) ==
    /\ ~crashed
    /\ cpc[r] = "validate_wait"
    /\ \E outcome \in ValidateOutcomes :
          /\ vres' = [vres EXCEPT ![r] = outcome]
          /\ podmem' = [podmem EXCEPT ![r] =
                           IF outcome.err \/ outcome.result = NoAction THEN NoMem
                           ELSE labelPodMem(outcome.result, MemOf(Decode(req[r].raw)))]
          /\ ChildTo(r, "store", HandleResult(req[r], outcome))
    /\ UNCHANGED certVars
    /\ UNCHANGED <<decoder, crashed, req, ppc, ctxErr, timerAt, resp, delivered, via,
                   calls, storedAfterReturn, nsres>>

\* resp = <value of w.handle>: the write of the shared variable; the value Handle
\* already returned is a copy and is not touched
ChildStoreAliased(r) ==
    /\ ~crashed
    /\ cpc[r] = "store"
    /\ resp' = [resp EXCEPT ![r] = hret[r]]
    /\ cpc' = [cpc EXCEPT ![r] = "send"]
    /\ storedAfterReturn' = [storedAfterReturn EXCEPT ![r] = (ppc[r] = "returned")]
    /\ delivered' = [delivered EXCEPT ![r] = IF ppc[r] = "returned" THEN hret[r] ELSE @]
    /\ UNCHANGED certVars
    /\ UNCHANGED <<decoder, crashed, req, ppc, ctxErr, timerAt, vres, hret, via, calls, nsres, podmem>>
ChildStore(r) ==
    /\ ~crashed
    /\ cpc[r] = "store"
    /\ resp' = [resp EXCEPT ![r] = hret[r]]
    /\ cpc' = [cpc EXCEPT ![r] = "send"]
    /\ storedAfterReturn' = [storedAfterReturn EXCEPT ![r] = (ppc[r] = "returned")]
    /\ UNCHANGED certVars
    /\ UNCHANGED <<decoder, crashed, req, ppc, ctxErr, timerAt, vres, hret, delivered, via,
                   calls, nsres, podmem>>

Next ==
    \/ InjectDecoder
    \/ \E r \in Reqs :
          \/ HandleStart(r)
          \/ TimerFire(r)
          \/ ParentCtxCancel(r)
          \/ ParentSelectDone(r)
          \/ ParentSelectTimeout(r)
          \/ ChildKindCheck(r)
          \/ ChildDecode(r)
          \/ ChildNsGetCall(r)
          \/ NsGetReturn(r)
          \/ ChildValidateCall(r)
          \/ ValidatePodReturn(r)
          \/ ChildStore(r)

Spec == Init /\ [][Next]_vars

\* Two Handle invocations in flight on the same webhook, each with its own
\* resp, done channel, context and timer (locals of handleWithTimeout); they
\* share the webhook's fields.  The requests are those that take the child
\* through each of its exits.
MultiRequests ==
    {[kind |-> "Deployment", raw |-> [form |-> "empty", labels |-> NilLabels]],
     [kind |-> PodType, raw |-> [form |-> "garbage", labels |-> NilLabels]],
     [kind |-> PodType, raw |-> [form |-> "pod", labels |-> NilLabels]]}

InitMulti ==
    /\ InitHandle({1, 2})
    /\ req[1] \in MultiRequests
    /\ req[2] \in MultiRequests
    /\ InitCertsOff

SpecMulti == InitMulti /\ [][Next]_vars

(***************************************************************************)
(* EnsureWebhookSecret.                                                     *)
(***************************************************************************)
\* the data a stored secret may hold
StoredData ==
    {NilData} \cup
    { [present |-> TRUE, map |-> m] :
        m \in UNION { { [k \in ks |-> IF k = CertFile THEN c ELSE IF k = KeyFile THEN y ELSE JunkBytes] :
                          c \in StoredCerts, y \in StoredKeys }
                      : ks \in SUBSET {CertFile, KeyFile, "ca.crt"} } }

StoredOwnerRefs ==
    {<<>>, <<[apiVersion |-> "v1", kind |-> "ConfigMap", name |-> "old", uid |-> <<"uid", "old">>]>>}

InitCerts ==
    /\ InitHandle({})
    /\ args \in [name : SecretNames, namespace : Namespaces, service : ServiceNames]
    /\ addOwnerRef \in OwnerRefEnv
    /\ \E present \in SUBSET Namespaces :
          deployment = [n \in Namespaces |-> IF n \in present THEN DeploymentUID(n) ELSE NoUID]
    /\ store \in {NoStore} \cup
                 { [exists |-> TRUE,
                    obj |-> Secret(args.name, args.namespace, d, o, "labels-and-annotations", 1)] :
                      d \in StoredData, o \in StoredOwnerRefs }
    /\ epc = "start"
    /\ eRead = "none"
    /\ eGot = NoSecret
    /\ eSecret = NoSecret
    /\ eNew = NoSecret
    /\ eBuild = "none"
    /\ eErr = "nil"
    /\ writes = <<>>
    /\ deployGets = 0
    /\ run = 1
    /\ prevErr = "none"
    /\ storeAtStart = store

\* EnsureWebhookSecret, client.Get of the secret and the branch on its error
EnsureGet ==
    /\ ~crashed
    /\ epc = "start"
    /\ \E failed \in BOOLEAN :
          IF failed
          THEN /\ eRead' = "error"
               /\ eErr' = "failed to get webhook secret"
               /\ epc' = "done"
               /\ UNCHANGED <<eGot, eSecret>>
          ELSE IF ~store.exists
          THEN /\ eRead' = "notfound"
               /\ epc' = "build"
               /\ UNCHANGED <<eErr, eGot, eSecret>>
          ELSE /\ eRead' = "found"
               /\ eGot' = store.obj
               /\ eSecret' = store.obj
               /\ epc' = "validate"
               /\ UNCHANGED eErr
    /\ UNCHANGED <<crashed, handleVars, run, prevErr, storeAtStart, args, addOwnerRef, deployment, store, eNew, eBuild,
                   writes, deployGets>>

\* an updateSecret that rebuilds the secret whatever isValidSecret says
UpdateSecretValidateAlwaysBuilds ==
    /\ ~crashed
    /\ epc = "validate"
    /\ LET v == isValidSecret(eSecret)
       IN IF v = "panic" THEN epc' = "panic" /\ crashed' = TRUE
          ELSE epc' = "build" /\ UNCHANGED crashed
    /\ UNCHANGED <<handleVars, run, prevErr, storeAtStart, args, addOwnerRef, deployment, store,
                   eRead, eGot, eSecret, eNew, eBuild, eErr, writes, deployGets>>

\* updateSecret, isValidSecret and the early return
UpdateSecretValidate ==
    /\ ~crashed
    /\ epc = "validate"
    /\ LET v == isValidSecret(eSecret)
       IN IF v = "panic" THEN epc' = "panic" /\ crashed' = TRUE
          ELSE IF v = "valid" THEN epc' = "done" /\ UNCHANGED crashed
          ELSE epc' = "build" /\ UNCHANGED crashed
    /\ UNCHANGED <<handleVars, run, prevErr, storeAtStart, args, addOwnerRef, deployment, store, eRead, eGot, eSecret, eNew,
                   eBuild, eErr, writes, deployGets>>

\* a lookup of the deployment in a fixed namespace
getDeploymentUIDMut(deployNamespace) == deployment["default"]

\* getDeploymentUID: the UID of the deployment in the namespace, NoUID with
\* an error when the read fails
getDeploymentUID(deployNamespace) == deployment[deployNamespace]

\* buildOwnerRefs: no reference unless the toggle is set; otherwise one
\* reference with the UID of the deployment, an error if its read fails
buildOwnerRefs(toggle, namespace) ==
    IF toggle # "true" THEN [err |-> FALSE, refs |-> <<>>, gets |-> 0]
    ELSE LET deployUID == getDeploymentUID(namespace)
         IN IF deployUID = NoUID THEN [err |-> TRUE, refs |-> <<>>, gets |-> 1]
            ELSE [err |-> FALSE, refs |-> <<OwnerRef(deployUID)>>, gets |-> 1]

\* buildSecret, called by createSecret with the requested name and namespace
\* and by updateSecret with those of the secret read
BuildSecret ==
    /\ ~crashed
    /\ epc = "build"
    /\ LET name == IF eRead = "notfound" THEN args.name ELSE eSecret.name
           namespace == IF eRead = "notfound" THEN args.namespace ELSE eSecret.namespace
       IN \E generated \in BOOLEAN :
             IF ~generated
             THEN /\ eBuild' = "failed"
                  /\ eErr' = "failed to create secret object"
                  /\ epc' = "done"
                  /\ UNCHANGED <<eNew, deployGets>>
             ELSE LET o == buildOwnerRefs(addOwnerRef, namespace)
                  IN /\ deployGets' = deployGets + o.gets
                     /\ IF o.err
                        THEN /\ eBuild' = "failed"
                             /\ eErr' = "failed to create secret object"
                             /\ epc' = "done"
                             /\ UNCHANGED eNew
                        ELSE /\ eBuild' = "ok"
                             /\ eNew' = BuiltSecret(name, namespace,
                                            generateWebhookCertificates(args.service, namespace),
                                            o.refs)
                             /\ epc' = "write"
                             /\ UNCHANGED eErr
    /\ UNCHANGED <<crashed, handleVars, run, prevErr, storeAtStart, args, addOwnerRef, deployment, store, eRead, eGot, eSecret,
                   writes>>

\* createSecret dropping the error of client.Create
CreateSecretIgnoresError ==
    /\ ~crashed
    /\ epc = "write"
    /\ eRead = "notfound"
    /\ \E ok \in BOOLEAN :
          /\ writes' = Append(writes, [op |-> "create", obj |-> eNew, ok |-> ok])
          /\ IF ok
             THEN store' = [exists |-> TRUE, obj |-> [eNew EXCEPT !.rv = 1]]
             ELSE UNCHANGED store
    /\ epc' = "done"
    /\ UNCHANGED <<crashed, handleVars, run, prevErr, storeAtStart, args, addOwnerRef, deployment,
                   eRead, eGot, eSecret, eNew, eBuild, eErr, deployGets>>

\* createSecret, client.Create
CreateSecret ==
    /\ ~crashed
    /\ epc = "write"
    /\ eRead = "notfound"
    /\ \E ok \in BOOLEAN :
          /\ writes' = Append(writes, [op |-> "create", obj |-> eNew, ok |-> ok])
          /\ IF ok
             THEN store' = [exists |-> TRUE, obj |-> [eNew EXCEPT !.rv = 1]] /\ UNCHANGED eErr
             ELSE eErr' = "failed to create secret" /\ UNCHANGED store
    /\ epc' = "done"
    /\ UNCHANGED <<crashed, handleVars, run, prevErr, storeAtStart, args, addOwnerRef, deployment, eRead, eGot, eSecret, eNew,
                   eBuild, deployGets>>

\* updateSecret handing the built secret itself to client.Update
UpdateSecretPassesNew ==
    /\ ~crashed
    /\ epc = "write"
    /\ eRead = "found"
    /\ eSecret' = eNew
    /\ \E ok \in BOOLEAN :
          /\ writes' = Append(writes, [op |-> "update", obj |-> eNew, ok |-> ok])
          /\ IF ok
             THEN store' = [exists |-> TRUE, obj |-> [eNew EXCEPT !.rv = @ + 1]] /\ UNCHANGED eErr
             ELSE eErr' = "failed to update secret" /\ UNCHANGED store
    /\ epc' = "done"
    /\ UNCHANGED <<crashed, handleVars, run, prevErr, storeAtStart, args, addOwnerRef, deployment,
                   eRead, eGot, eNew, eBuild, deployGets>>

\* updateSecret, the two assignments and client.Update
UpdateSecret ==
    /\ ~crashed
    /\ epc = "write"
    /\ eRead = "found"
    /\ LET updated == [eSecret EXCEPT !.data = eNew.data, !.ownerRefs = eNew.ownerRefs]
       IN /\ eSecret' = updated
          /\ \E ok \in BOOLEAN :
                /\ writes' = Append(writes, [op |-> "update", obj |-> updated, ok |-> ok])
                /\ IF ok
                   THEN store' = [exists |-> TRUE, obj |-> [updated EXCEPT !.rv = @ + 1]]
                        /\ UNCHANGED eErr
                   ELSE eErr' = "failed to update secret" /\ UNCHANGED store
    /\ epc' = "done"
    /\ UNCHANGED <<crashed, handleVars, run, prevErr, storeAtStart, args, addOwnerRef, deployment, eRead, eGot, eNew, eBuild,
                   deployGets>>

\* the process is started again: SetupCertSecret calls EnsureWebhookSecret
\* with the same arguments, on the store as the last run left it
Rerun ==
    /\ ~crashed
    /\ epc = "done"
    /\ run < MaxRuns
    /\ run' = run + 1
    /\ prevErr' = eErr
    /\ storeAtStart' = store
    /\ epc' = "start"
    /\ eRead' = "none"
    /\ eGot' = NoSecret
    /\ eSecret' = NoSecret
    /\ eNew' = NoSecret
    /\ eBuild' = "none"
    /\ eErr' = "nil"
    /\ writes' = <<>>
    /\ deployGets' = 0
    /\ UNCHANGED <<crashed, handleVars, args, addOwnerRef, deployment, store>>

NextCerts ==
    \/ EnsureGet
    \/ UpdateSecretValidate
    \/ BuildSecret
    \/ CreateSecret
    \/ UpdateSecret
    \/ Rerun

SpecCerts == InitCerts /\ [][NextCerts]_vars

(***************************************************************************)
(* Scheduling: the Go scheduler runs every runnable goroutine eventually    *)
(* and an armed timer fires.  Nothing makes a collaborator (client.Get,     *)
(* ValidatePod) return, the caller cancel its context, or InjectDecoder be  *)
(* called.                                                                  *)
(***************************************************************************)
Fairness ==
    \A r \in Reqs :
        /\ WF_vars(HandleStart(r))
        /\ WF_vars(TimerFire(r))
        /\ WF_vars(ParentSelectDone(r))
        /\ WF_vars(ParentSelectTimeout(r))
        /\ WF_vars(ChildKindCheck(r))
        /\ WF_vars(ChildDecode(r))
        /\ WF_vars(ChildNsGetCall(r))
        /\ WF_vars(ChildValidateCall(r))
        /\ WF_vars(ChildStore(r))

SpecFair == Init /\ [][Next]_vars /\ Fairness

(***************************************************************************)
(* Properties of the request pipeline.                                      *)
(***************************************************************************)
Returned(r) == ppc[r] = "returned"

\* ValidatePod was called and the deadline timer fired before it returned
TimerFiredBeforeValidatorDone(r) ==
    calls[r].validate = 1 /\ timerAt[r] \in BeforeValidatorDone

\* C1: if the deadline timer fires before the ValidatePod call has completed,
\* the response Handle returns is the 408 request-timeout response.
C1_TimerFirstGives408 ==
    \A r \in Reqs :
        (Returned(r) /\ TimerFiredBeforeValidatorDone(r)) => delivered[r] = TimeoutResponse

\* C2: once Handle has returned through the timeout case, the response the
\* caller holds is the 408 response and no later step (the child's write of
\* resp included) changes it.
C2_TimeoutResponseStays ==
    [][\A r \in Reqs :
          (Returned(r) /\ via[r] = "timeout")
             => (delivered[r] = TimeoutResponse /\ delivered'[r] = delivered[r])]_vars

\* C2 witness: Handle returned 408 and the child wrote another response to
\* resp afterwards.
C2_Witness ==
    \E r \in Reqs :
        /\ Returned(r) /\ via[r] = "timeout"
        /\ storedAfterReturn[r] /\ cpc[r] = "send"
        /\ resp[r] # delivered[r] /\ delivered[r] = TimeoutResponse

\* ValidatePod returned and the child had computed its response when the
\* deadline timer fired
ChildFinishedBeforeTimer(r) ==
    calls[r].validate = 1 /\ timerAt[r] \in {"store", "send"}

\* C3: if the child has computed its response before the deadline timer
\* fires, Handle returns the child's response and never the 408 response.
C3_ChildFirstGivesChildResponse ==
    \A r \in Reqs :
        (Returned(r) /\ ChildFinishedBeforeTimer(r))
            => (delivered[r] = hret[r] /\ delivered[r] # TimeoutResponse)

\* C4: every invocation of Handle eventually returns a response.
C4_HandleEventuallyReturns ==
    \A r \in Reqs : (ppc[r] = "select") ~> Returned(r)

\* With the decoder injected before the call, Handle does return, whatever the
\* collaborators do.
HandleReturnsWithDecoder ==
    \A r \in Reqs : (ppc[r] = "select" /\ decoder = "set") ~> Returned(r)

\* C5: no invocation of Handle crashes the process, also when InjectDecoder
\* has not been called.
C5_HandleNeverCrashes == ~crashed

\* C6: a request whose kind is not Pod gets the 400 response, and the
\* decoder, the namespace lookup and the validator are not invoked for it.
C6_WrongKindGives400 ==
    \A r \in Reqs :
        (Returned(r) /\ req[r].kind # PodType)
            => (delivered[r] = Errored(StatusBadRequest) /\ calls[r] = NoCalls)

\* the patch operation sets the policy label to v
SetsPolicyLabel(o, v) ==
    /\ o.op \in {"add", "replace"}
    /\ PodValidationLabel \in DOMAIN o.value
    /\ o.value[PodValidationLabel] = v

\* the patch operation is about the policy label
TouchesPolicyLabel(o) ==
    \/ o.path = <<"labels", PodValidationLabel>>
    \/ o.path = <<"labels">>

\* what the API server makes of metadata.labels when it applies the patch
ApplyPatch(l, ops) ==
    LET whole == { o \in ops : o.path = <<"labels">> }
        sets == { o \in ops \ whole : o.op \in {"add", "replace"} }
        removed == { o.path[2] : o \in { x \in ops \ whole : x.op = "remove" } }
    IN IF whole # {}
       THEN LET o == CHOOSE x \in whole : TRUE
            IN IF o.op = "remove" THEN NilLabels ELSE [present |-> TRUE, map |-> o.value]
       ELSE IF ~l.present THEN l
       ELSE LET keys == ((DOMAIN l.map) \ removed) \cup { o.path[2] : o \in sets }
            IN [present |-> TRUE,
                map |-> [k \in keys |->
                           IF \E o \in sets : o.path[2] = k
                           THEN (CHOOSE o \in sets : o.path[2] = k).value[k]
                           ELSE l.map[k]]]

\* Handle returned the child's response and that was built from a result of
\* ValidatePod
ValidatedInTime(r) ==
    Returned(r) /\ via[r] = "done" /\ calls[r].validate = 1 /\ ~vres[r].err

\* C7 as stated: for every result other than NoAction the patch of the
\* response contains the policy label set to the mapped value; for NoAction
\* the response is allowed and has no patch.
C7_PatchContainsLabel ==
    \A r \in Reqs :
        ValidatedInTime(r) =>
            IF vres[r].result = NoAction
            THEN delivered[r].allowed /\ delivered[r].patches = {}
            ELSE /\ delivered[r].allowed
                 /\ \E o \in delivered[r].patches :
                       SetsPolicyLabel(o, LabelForValidationResult(vres[r].result))

\* C7 as amended: for every result other than NoAction the response is
\* allowed and its patch, applied to the request's object, yields the pod's
\* labels with the policy label set to the mapped value and every other
\* label as it was; the patch holds an operation on the policy label exactly
\* when the object does not carry that value already.  For NoAction the
\* response is allowed and has no patch.
C7_PatchedPodCarriesLabel ==
    \A r \in Reqs :
        ValidatedInTime(r) =>
            IF vres[r].result = NoAction
            THEN delivered[r].allowed /\ delivered[r].patches = {}
            ELSE LET want == LabelForValidationResult(vres[r].result)
                     before == req[r].raw.labels
                     after == ApplyPatch(before, delivered[r].patches)
                     had == before.present /\ PodValidationLabel \in DOMAIN before.map
                            /\ before.map[PodValidationLabel] = want
                 IN /\ delivered[r].allowed
                    /\ after.present
                    /\ DOMAIN after.map = {PodValidationLabel}
                                          \cup (IF before.present THEN DOMAIN before.map ELSE {})
                    /\ after.map[PodValidationLabel] = want
                    /\ \A k \in (DOMAIN after.map) \ {PodValidationLabel} :
                          after.map[k] = before.map[k]
                    /\ had <=> ~(\E o \in delivered[r].patches : TouchesPolicyLabel(o))
                    /\ ~had <=> (\E o \in delivered[r].patches : SetsPolicyLabel(o, want))

\* C7 witness: a pod that already carries the policy label with the mapped
\* value was validated in time and the patch has no operation on that label.
C7_Witness ==
    \E r \in Reqs :
        /\ ValidatedInTime(r)
        /\ vres[r].result = Valid
        /\ req[r].raw.labels.present
        /\ PodValidationLabel \in DOMAIN req[r].raw.labels.map
        /\ req[r].raw.labels.map[PodValidationLabel] = ValidationStatusSuccess
        /\ delivered[r].allowed
        /\ ~(\E o \in delivered[r].patches : TouchesPolicyLabel(o))

\* C8: LabelForValidationResult maps NoAction to no label, Valid to success,
\* Invalid to reject, ServiceUnavailable to pending and every other value to
\* pending; only NoAction yields the empty label.
C8_LabelMapping ==
    \A r \in Reqs :
        (vres[r] # NoOutcome /\ ~vres[r].err) =>
            LET v == vres[r].result
                l == LabelForValidationResult(v)
            IN /\ (v = NoAction => l = "")
               /\ (v = Valid => l = ValidationStatusSuccess)
               /\ (v = Invalid => l = ValidationStatusReject)
               /\ (v = ServiceUnavailable => l = ValidationStatusPending)
               /\ (v \notin {NoAction, Valid, Invalid, ServiceUnavailable}
                      => l = ValidationStatusPending)
               /\ (l = "" => v = NoAction)
               /\ l \in {"", ValidationStatusSuccess, ValidationStatusReject,
                         ValidationStatusPending}

\* C8 witness: the validator returned a value the switch does not name and
\* the response built from it labels the pod pending.
C8_Witness ==
    \E r \in Reqs :
        /\ vres[r].result \in Unrecognized /\ ~vres[r].err /\ vres[r] # NoOutcome
        /\ \E o \in hret[r].patches : SetsPolicyLabel(o, ValidationStatusPending)

(***************************************************************************)
(* Properties of EnsureWebhookSecret.                                       *)
(***************************************************************************)
\* the data of a freshly built secret for the arguments of the run
FreshData(namespace) ==
    LET pair == generateWebhookCertificates(args.service, namespace)
    IN [present |-> TRUE,
        map |-> [k \in {CertFile, KeyFile} |-> IF k = CertFile THEN pair.cert ELSE pair.key]]

\* the three checks of a stored secret, read off the bytes
HasBothKeys(s) == s.data.present /\ {CertFile, KeyFile} \subseteq DOMAIN s.data.map
CertVerifiesAhead(c) ==
    c.form = "cert" /\ c.wellFormed /\ c.chains /\ c.daysLeft >= VerifyAheadDays
KeyValidates(k) == k.form = "key" /\ k.wellFormed /\ k.keyOK
PassesAllChecks(s) ==
    /\ HasBothKeys(s)
    /\ CertVerifiesAhead(s.data.map[CertFile])
    /\ KeyValidates(s.data.map[KeyFile])

\* C9: for an existing secret that lacks a required key, or whose certificate
\* does not verify at now + 10 days, or whose key fails validation,
\* EnsureWebhookSecret issues an Update carrying a fresh pair; for a secret
\* that passes the three checks it issues no Update and no Create.
C9_ExistingSecretRegenerated ==
    eRead = "found" =>
        /\ ~crashed
        /\ epc = "done" =>
              IF PassesAllChecks(eGot)
              THEN writes = <<>>
              ELSE /\ Len(writes) = 1
                   /\ writes[1].op = "update"
                   /\ writes[1].obj.data = FreshData(eGot.namespace)

\* no Create or Update is issued
NoWrites == writes = <<>>

\* exactly one Create of a fresh secret with the requested name and
\* namespace, no Update, and the error returned is that of the Create
OneCreate ==
    /\ Len(writes) = 1
    /\ writes[1].op = "create"
    /\ writes[1].obj.name = args.name
    /\ writes[1].obj.namespace = args.namespace
    /\ writes[1].obj.data = FreshData(args.namespace)
    /\ (writes[1].ok <=> eErr = "nil")
    /\ (~writes[1].ok => eErr = "failed to create secret")

\* C10 as stated: after a not-found read EnsureWebhookSecret issues exactly
\* one Create of a fresh secret with the requested name and namespace and no
\* Update, and returns the Create's error; after any other read error it
\* returns an error and issues no Create and no Update.
C10_NotFoundCreates ==
    epc = "done" =>
        /\ eRead = "notfound" => OneCreate
        /\ eRead = "error" => (eErr # "nil" /\ NoWrites)

\* C10 as amended: as stated when the construction of the fresh secret
\* succeeds; when it fails (certificate generation, or the read of the owner
\* deployment with the toggle set) EnsureWebhookSecret returns an error and
\* issues no Create and no Update.
C10_NotFoundCreatesIfBuilt ==
    /\ eRead \in {"notfound", "error"} => \A i \in 1..Len(writes) : writes[i].op = "create"
    /\ epc # "done" /\ eRead \in {"notfound", "error"} => NoWrites
    /\ epc = "done" =>
          /\ (eRead = "notfound" /\ eBuild = "ok") => OneCreate
          /\ (eRead = "notfound" /\ eBuild # "ok") =>
                (eBuild = "failed" /\ eErr # "nil" /\ NoWrites)
          /\ eRead = "error" => (eErr # "nil" /\ NoWrites)

\* C10 witness: the secret was not found, a fresh one was built for the
\* requested identity, and the Create failed.
C10_Witness ==
    /\ epc = "done" /\ eRead = "notfound" /\ eBuild = "ok"
    /\ Len(writes) = 1 /\ ~writes[1].ok
    /\ eErr = "failed to create secret"
    /\ args.namespace # "default"

\* the owner references buildOwnerRefs yields in a namespace under the
\* configuration of the run, when it yields any
ExpectedOwnerRefs(namespace) ==
    IF addOwnerRef = "true" THEN <<OwnerRef(DeploymentUID(namespace))>> ELSE <<>>

\* C11: the object passed to Update equals the object that was read in name,
\* namespace, labels and annotations, resource version and other metadata;
\* its data is exactly the fresh pair under the two required keys and its
\* owner references are those of the freshly built secret, so extra data
\* keys and earlier owner references of the secret read are gone.
C11_UpdateKeepsIdentity ==
    \A i \in 1..Len(writes) :
        writes[i].op = "update" =>
            /\ eRead = "found"
            /\ eBuild = "ok"
            /\ writes[i].obj.name = eGot.name
            /\ writes[i].obj.namespace = eGot.namespace
            /\ writes[i].obj.meta = eGot.meta
            /\ writes[i].obj.rv = eGot.rv
            /\ writes[i].obj.data = eNew.data
            /\ writes[i].obj.data = FreshData(eGot.namespace)
            /\ DOMAIN writes[i].obj.data.map = {CertFile, KeyFile}
            /\ writes[i].obj.ownerRefs = eNew.ownerRefs
            /\ writes[i].obj.ownerRefs = ExpectedOwnerRefs(eGot.namespace)
            /\ writes[i].obj =
                  [eGot EXCEPT !.data = eNew.data, !.ownerRefs = eNew.ownerRefs]

\* C11 witness: an Update was issued for a secret that was read with an
\* extra data key, an owner reference of its own and metadata.
C11_Witness ==
    /\ Len(writes) = 1
    /\ writes[1].op = "update"
    /\ eGot.data.present
    /\ "ca.crt" \in DOMAIN eGot.data.map
    /\ eGot.ownerRefs # <<>>
    /\ eGot.ownerRefs # writes[1].obj.ownerRefs
    /\ eGot.meta # ""
    /\ "ca.crt" \notin DOMAIN writes[1].obj.data.map

\* a run that follows a run which returned success
FollowsSuccess == run >= 2 /\ prevErr = "nil"

\* C12 as stated: a run that immediately follows a successful run, with the
\* same arguments and the store as that run left it, issues no Create and no
\* Update, returns success and leaves the store unchanged.
C12_Idempotent ==
    (FollowsSuccess /\ epc = "done") =>
        /\ writes = <<>>
        /\ store = storeAtStart
        /\ eErr = "nil"

\* C12 amended: such a run never crashes, builds nothing, issues no Create
\* and no Update and leaves the store unchanged; the secret it reads passes
\* the three checks; it returns success unless its own read of the secret
\* fails, and then it returns that error.
C12_IdempotentUnlessReadFails ==
    FollowsSuccess =>
        /\ ~crashed
        /\ epc \in {"start", "validate", "done"}
        /\ writes = <<>>
        /\ store = storeAtStart
        /\ eBuild = "none"
        /\ deployGets = 0
        /\ store.exists /\ PassesAllChecks(store.obj)
        /\ eRead \in {"none", "found", "error"}
        /\ eRead = "found" => eGot = store.obj
        /\ epc = "done" =>
              /\ eRead \in {"found", "error"}
              /\ eRead = "found" <=> eErr = "nil"
              /\ eRead = "error" <=> eErr = "failed to get webhook secret"

\* C12 witness: the first run regenerated an invalid secret (the stored
\* resource version moved on), and the run that follows read it, found it
\* valid and returned success without a write.
C12_Witness ==
    /\ FollowsSuccess
    /\ epc = "done"
    /\ eRead = "found"
    /\ eErr = "nil"
    /\ writes = <<>>
    /\ store.obj.rv = 2
    /\ store.obj.data = FreshData(store.obj.namespace)

\* the run returned: the secret it read passed the three checks and it
\* wrote nothing
ReturnedChecked ==
    /\ eRead = "found"
    /\ PassesAllChecks(eGot)
    /\ writes = <<>>
    /\ store.obj = eGot

\* the run returned: its one Create or Update of a freshly built secret
\* succeeded and the store holds what it wrote
ReturnedProduced ==
    /\ eBuild = "ok"
    /\ Len(writes) = 1
    /\ writes[1].ok
    /\ writes[1].op = (IF eRead = "notfound" THEN "create" ELSE "update")
    /\ writes[1].obj.data = FreshData(writes[1].obj.namespace)
    /\ store.obj.data = writes[1].obj.data
    /\ store.obj.name = writes[1].obj.name
    /\ store.obj.namespace = writes[1].obj.namespace

\* C13: EnsureWebhookSecret returns success only if at return the store
\* holds a secret that passes the three checks and that this run either read
\* and found valid or wrote, freshly built, with a Create or Update that
\* succeeded; a failed read (other than not-found), a failed construction, a
\* failed Create and a failed Update each make it return an error.
C13_SuccessOnlyWithValidSecret ==
    epc = "done" =>
        /\ eErr = "nil" =>
              /\ store.exists
              /\ PassesAllChecks(store.obj)
              /\ ReturnedChecked \/ ReturnedProduced
        /\ eRead = "error" => eErr # "nil"
        /\ eBuild = "failed" => eErr # "nil"
        /\ \A i \in 1..Len(writes) : ~writes[i].ok => eErr # "nil"

\* C13 witness: the run read an invalid secret, its Update of a freshly built
\* secret succeeded and it returned success with the store holding a secret
\* that passes the three checks.
C13_Witness ==
    /\ epc = "done"
    /\ eErr = "nil"
    /\ eRead = "found"
    /\ ~PassesAllChecks(eGot)
    /\ ReturnedProduced
    /\ PassesAllChecks(store.obj)

\* the owner-reference toggle is enabled
ToggleEnabled == addOwnerRef = "true"

\* C14: with the toggle enabled a built secret carries exactly one owner
\* reference, to the configured deployment with the UID found by one lookup
\* in the secret's namespace; if that lookup fails the construction fails,
\* EnsureWebhookSecret returns an error, issues no Create and no Update and
\* the store is unchanged.  With the toggle not enabled there is no lookup
\* and a built secret has no owner reference.
C14_OwnerRefToggle ==
    /\ deployGets <= 1
    /\ ~ToggleEnabled => deployGets = 0
    /\ eBuild = "ok" =>
          IF ToggleEnabled
          THEN /\ deployGets = 1
               /\ Len(eNew.ownerRefs) = 1
               /\ eNew.ownerRefs[1].uid = deployment[eNew.namespace]
               /\ eNew.ownerRefs[1].uid # NoUID
               /\ eNew.ownerRefs[1].name = DeploymentName
               /\ eNew.ownerRefs[1].kind = "Deployment"
               /\ eNew.ownerRefs[1].apiVersion = "apps/v1"
               /\ eNew.namespace = args.namespace
          ELSE eNew.ownerRefs = <<>>
    /\ (deployGets = 1 /\ deployment[args.namespace] = NoUID) =>
          /\ eBuild = "failed"
          /\ epc = "done"
          /\ eErr = "failed to create secret object"
          /\ writes = <<>>
          /\ store = storeAtStart

\* C14 witness: with the toggle enabled and the deployment present only in
\* another namespace, the lookup for an existing invalid secret failed and
\* the run returned an error without a write.
C14_Witness ==
    /\ ToggleEnabled
    /\ eRead = "found"
    /\ deployGets = 1
    /\ deployment[args.namespace] = NoUID
    /\ \E n \in Namespaces : deployment[n] # NoUID
    /\ epc = "done"
    /\ eErr # "nil"
    /\ writes = <<>>

\* the names of C17 for a service and a namespace, a name being the
\* sequence of its dot-separated parts
ClaimedNames(service, namespace) ==
    [common |-> <<service, namespace, "svc">>,
     all |-> {<<service>>,
              <<service, namespace>>,
              <<service, namespace, "svc">>,
              <<service, namespace, "svc", "cluster", "local">>}]

\* C17: for every service name and namespace the names a fresh certificate
\* is generated for are exactly service, service.namespace,
\* service.namespace.svc and service.namespace.svc.cluster.local, and
\* service.namespace.svc is the common name; the certificate of every built
\* secret carries these names for the service and the secret's namespace.
C17_AltNames ==
    /\ \A service \in ServiceNames, namespace \in Namespaces :
          LET names == generateWebhookCertificates(service, namespace).cert.names
              claimed == ClaimedNames(service, namespace)
          IN /\ names[1] = claimed.common
             /\ names[2] = claimed.all
             /\ Cardinality(names[2]) = 4
             /\ serviceAltNames(service, namespace)[1] = claimed.common
    /\ eBuild = "ok" =>
          LET names == eNew.data.map[CertFile].names
              claimed == ClaimedNames(args.service, eNew.namespace)
          IN /\ names[1] = claimed.common
             /\ names[2] = claimed.all
    /\ \A i \in 1..Len(writes) :
          writes[i].obj.data.map[CertFile].names[2] =
              ClaimedNames(args.service, args.namespace).all

\* C17 witness: a secret was built and written for the second service in
\* the second namespace, its certificate generated for the host
\* warden-operator.kyma-system.svc.
C17_Witness ==
    /\ eBuild = "ok"
    /\ args.service = "warden-operator"
    /\ args.namespace = "kyma-system"
    /\ Len(writes) = 1
    /\ writes[1].obj.data.map[CertFile].names[1] = <<"warden-operator", "kyma-system", "svc">>
    /\ <<"warden-operator", "kyma-system", "svc", "cluster", "local">>
           \in writes[1].obj.data.map[CertFile].names[2]

\* the secret read has both keys and a certificate that verifies, and key
\* bytes that are not a valid private key
ValidCertBadKey ==
    /\ eRead = "found"
    /\ HasBothKeys(eGot)
    /\ CertVerifiesAhead(eGot.data.map[CertFile])
    /\ ~KeyValidates(eGot.data.map[KeyFile])

\* C20: whatever bytes are stored under the key entry of an existing secret
\* whose certificate is valid, bytes without a PEM block and empty bytes
\* included, key verification says invalid and the secret is regenerated:
\* EnsureWebhookSecret does not crash, goes on to build a fresh secret, and
\* returns an error only if the construction or the Update fails.
C20_BadKeyBytesRegenerated ==
    ValidCertBadKey =>
        /\ ~crashed
        /\ epc # "panic"
        /\ epc = "done" =>
              /\ eBuild # "none"
              /\ eErr # "nil" => (eBuild = "failed" \/ (Len(writes) = 1 /\ ~writes[1].ok))
              /\ eBuild = "ok" => (Len(writes) = 1 /\ writes[1].op = "update")

(***************************************************************************)
(* Further properties of Handle.                                            *)
(***************************************************************************)
\* the failures of the child pipeline of request r
KindMismatch(r) == req[r].kind # PodType
DecodeFailed(r) == calls[r].decode = 1 /\ req[r].raw.form \in {"empty", "garbage"}
NsLookupFailed(r) == nsres[r] = "err"
ValidatorFailed(r) == vres[r].err

\* C16: every denied response of Handle has status 400, 500 or 408.  The
\* response is the 408 response exactly when Handle returns through the
\* timeout case of its select; a response handed over by the child has
\* status 400 exactly when the kind is not Pod and status 500 exactly when
\* the decode, the namespace lookup (not-found included) or the validator
\* failed; every other response is allowed.
C16_StatusCodes ==
    \A r \in Reqs :
        Returned(r) =>
            /\ delivered[r].allowed \/
                  delivered[r].code \in
                      {StatusBadRequest, StatusInternalServerError, StatusRequestTimeout}
            /\ ~delivered[r].allowed => delivered[r].patches = {}
            /\ via[r] \in {"done", "timeout"}
            /\ via[r] = "timeout" <=> delivered[r] = Errored(StatusRequestTimeout)
            /\ via[r] = "timeout" <=> delivered[r].code = StatusRequestTimeout
            /\ via[r] = "done" =>
                  /\ delivered[r] = hret[r]
                  /\ KindMismatch(r) <=> delivered[r] = Errored(StatusBadRequest)
                  /\ KindMismatch(r) <=> delivered[r].code = StatusBadRequest
                  /\ (~KindMismatch(r) /\
                        (DecodeFailed(r) \/ NsLookupFailed(r) \/ ValidatorFailed(r)))
                        <=> delivered[r] = Errored(StatusInternalServerError)
                  /\ delivered[r].code = StatusInternalServerError => ~delivered[r].allowed
                  /\ ~(KindMismatch(r) \/ DecodeFailed(r) \/ NsLookupFailed(r)
                         \/ ValidatorFailed(r)) => delivered[r].allowed

\* C16 witness: the namespace lookup of a Pod request failed and Handle
\* returned the child's 500 response.
C16_Witness ==
    \E r \in Reqs :
        /\ Returned(r)
        /\ via[r] = "done"
        /\ NsLookupFailed(r)
        /\ delivered[r] = Errored(StatusInternalServerError)

\* in every state: each collaborator was called at most once, and a call
\* that was made had its predecessors succeed
CallsInOrder(r) ==
    /\ calls[r].decode <= 1 /\ calls[r].nsget <= 1 /\ calls[r].validate <= 1
    /\ calls[r].decode = 1 => ~KindMismatch(r)
    /\ calls[r].nsget = 1 =>
          (~KindMismatch(r) /\ calls[r].decode = 1 /\ ~DecodeFailed(r))
    /\ calls[r].validate = 1 =>
          /\ ~KindMismatch(r)
          /\ calls[r].decode = 1 /\ ~DecodeFailed(r)
          /\ calls[r].nsget = 1 /\ nsres[r] = "ok"
    /\ DecodeFailed(r) => (calls[r].nsget = 0 /\ calls[r].validate = 0)
    /\ NsLookupFailed(r) => calls[r].validate = 0
    /\ KindMismatch(r) => calls[r].validate = 0

\* in every step: a call of the validator is the first one and is made
\* after the decode and the namespace lookup have succeeded; a namespace
\* lookup is made after the decode has succeeded
CallStepInOrder(r) ==
    /\ calls'[r].validate # calls[r].validate =>
          /\ calls[r].validate = 0 /\ calls'[r].validate = 1
          /\ ~KindMismatch(r)
          /\ calls[r].decode = 1 /\ ~DecodeFailed(r)
          /\ calls[r].nsget = 1 /\ nsres[r] = "ok"
    /\ calls'[r].nsget # calls[r].nsget =>
          /\ calls[r].nsget = 0 /\ calls[r].validate = 0
          /\ calls[r].decode = 1 /\ ~DecodeFailed(r)
    /\ calls'[r].decode # calls[r].decode =>
          /\ calls[r] = NoCalls
          /\ ~KindMismatch(r)

\* C18: within one request the validator is invoked at most once, and only
\* after the kind check passed, the decode succeeded and the namespace
\* lookup succeeded, in that order; after a decode failure there is no
\* namespace lookup and no validator call, after a namespace-lookup failure
\* no validator call.
C18_ValidatorOnceInOrder ==
    /\ [](\A r \in Reqs : CallsInOrder(r))
    /\ [][\A r \in Reqs : CallStepInOrder(r)]_vars

\* C18 witness: the validator was called once, after one decode and one
\* successful namespace lookup, and has returned.
C18_Witness ==
    \E r \in Reqs :
        /\ calls[r] = [decode |-> 1, nsget |-> 1, validate |-> 1]
        /\ nsres[r] = "ok"
        /\ vres[r] # NoOutcome
        /\ cpc[r] \in {"store", "send", "exit"}

\* labelPod, called with a result and a pod whose labels are l, left the
\* heap out.mem and returned out.ret: the input pod still has the labels l
\* in the map it had, and the pod returned is another pod with another map,
\* which has the policy label set to the mapped value and every other label
\* of l unchanged
CopiesAndLabels(result, l, out) ==
    LET labelToApply == LabelForValidationResult(result)
        before == MemOf(l)
        after == out.mem
        got == LabelsAt(after, out.ret)
    IN /\ out.ret # InputPod
       /\ after.pods[InputPod] = before.pods[InputPod]
       /\ LabelsAt(after, InputPod) = l
       /\ after.pods[out.ret] # "nil"
       /\ after.pods[out.ret] # after.pods[InputPod]
       /\ got.present
       /\ DOMAIN got.map = (IF l.present THEN DOMAIN l.map ELSE {}) \cup {PodValidationLabel}
       /\ got.map[PodValidationLabel] = labelToApply
       /\ \A k \in DOMAIN got.map : k # PodValidationLabel => got.map[k] = l.map[k]

\* C19: labelling never mutates the decoded input pod: for every result
\* with a non-empty label labelPod returns a distinct copy whose label
\* mapping is the input's (created if absent) with the policy label set to
\* the mapped value and every other label unchanged, and the input pod's
\* labels are the same before and after; so it is for the pod of every
\* request that reached labelPod.
C19_LabelPodCopies ==
    /\ \A result \in ValidationResults, l \in Labels :
          LabelForValidationResult(result) # "" =>
              CopiesAndLabels(result, l, labelPodMem(result, MemOf(l)))
    /\ \A r \in Reqs :
          podmem[r] # NoMem =>
              /\ LabelForValidationResult(vres[r].result) # ""
              /\ CopiesAndLabels(vres[r].result, Decode(req[r].raw), podmem[r])
              /\ hret[r] = PatchResponseFromRaw(req[r].raw.labels,
                                Marshal(LabelsAt(podmem[r].mem, podmem[r].ret)))

\* C19 witness: a pod that carried a stale policy label was validated as
\* Invalid; the pod labelPod returned is labelled reject and the input pod
\* still carries the stale value.
C19_Witness ==
    \E r \in Reqs :
        /\ podmem[r] # NoMem
        /\ vres[r].result = Invalid
        /\ req[r].raw.labels.present
        /\ PodValidationLabel \in DOMAIN req[r].raw.labels.map
        /\ req[r].raw.labels.map[PodValidationLabel] = "stale"
        /\ LabelsAt(podmem[r].mem, InputPod).map[PodValidationLabel] = "stale"
        /\ LabelsAt(podmem[r].mem, podmem[r].ret).map[PodValidationLabel] = ValidationStatusReject

\* the response the child of request r computes from the request and the
\* results its own collaborators gave
OwnResponse(r) ==
    IF KindMismatch(r) THEN Errored(StatusBadRequest)
    ELSE IF req[r].raw.form # "pod" THEN Errored(StatusInternalServerError)
    ELSE IF NsLookupFailed(r) THEN Errored(StatusInternalServerError)
    ELSE HandleResult(req[r], vres[r])

\* C15: with several Handle invocations in flight, the response of each is
\* the 408 response of its own timer or the response computed from its own
\* request and its own collaborator results, never one built from another
\* request's validator result; and whatever another request does (its
\* validator call blocking or timing out included), a request whose own
\* handling has not failed is not held up: its timer can fire while it
\* waits, it can return once its timer has fired, and it can take its
\* child's response once the child offers it.
C15_RequestsIndependent ==
    \A r \in Reqs :
        /\ Returned(r) =>
              \/ via[r] = "timeout" /\ ctxErr[r] # "none" /\ delivered[r] = TimeoutResponse
              \/ via[r] = "done" /\ delivered[r] = OwnResponse(r)
        /\ (ppc[r] = "select" /\ cpc[r] # "panic") =>
              /\ ctxErr[r] = "none" => ENABLED TimerFire(r)
              /\ ctxErr[r] # "none" => ENABLED ParentSelectTimeout(r)
              /\ cpc[r] = "send" => ENABLED ParentSelectDone(r)

\* the context handed to the collaborators of request r is cancelled
CtxCancelled(r) == CollaboratorCtx(r) # "none"

\* C21: the context handed to the namespace lookup and to the validator is
\* cancelled in the step in which the deadline timer fires, with the error
\* DeadlineExceeded, and is cancelled in every state in which Handle has
\* returned; once cancelled it stays cancelled, so a collaborator still
\* running then finds it cancelled.
C21_CtxCancelledByDeadlineAndReturn ==
    /\ [](\A r \in Reqs :
            /\ timerAt[r] # "none" => CollaboratorCtx(r) = "DeadlineExceeded"
            /\ Returned(r) => CtxCancelled(r)
            /\ ppc[r] \in {"unused", "idle"} => ~CtxCancelled(r))
    /\ [][\A r \in Reqs :
            /\ timerAt'[r] # timerAt[r] => CollaboratorCtx(r)' = "DeadlineExceeded"
            /\ (~Returned(r) /\ Returned(r)') => CtxCancelled(r)'
            /\ CtxCancelled(r) => CollaboratorCtx(r)' = CollaboratorCtx(r)]_vars

\* C21 witness: the timer fired while ValidatePod was running; Handle has
\* returned and the validator, still running, holds a context whose Err is
\* DeadlineExceeded.
C21_Witness ==
    \E r \in Reqs :
        /\ Returned(r)
        /\ cpc[r] = "validate_wait"
        /\ timerAt[r] = "validate_wait"
        /\ CollaboratorCtx(r) = "DeadlineExceeded"

\* C22: Handle returns the 408 timeout response only when the deadline timer
\* of that request has fired; a cancellation of the context the caller
\* passed, with the timer not fired, does not produce the 408 response.
C22_TimeoutResponseOnlyAfterDeadline ==
    \A r \in Reqs :
        (Returned(r) /\ delivered[r] = TimeoutResponse) =>
            /\ timerAt[r] # "none"
            /\ ctxErr[r] = "DeadlineExceeded"

\* C23: a child goroutine whose collaborator calls have returned and which
\* is signalling completion is never left without a receiver: while it is
\* blocked in its send the parent is still in its select and can take the
\* signal, also when the timer has fired; so no child of a request that
\* has returned stays blocked in the send.
C23_ChildNotLeftInSend ==
    \A r \in Reqs :
        (cpc[r] = "send" /\ ~crashed) =>
            /\ ~Returned(r)
            /\ ENABLED ParentSelectDone(r)

\* the accesses to the variable resp shared by handleWithTimeout and its
\* child, as steps: the child's assignment and the parent's `return resp`
ChildWritesResp(r) == cpc[r] = "store" /\ cpc'[r] = "send"
ParentReadsResp(r) == via[r] = "none" /\ via'[r] = "done"
ParentTakesTimeout(r) == via[r] = "none" /\ via'[r] = "timeout"

\* C24: there is no data race on resp.  In no state are the parent's read
\* and the child's write both possible; the parent reads resp only when the
\* child is in its send, which is after the child's write, and gets the
\* value the child wrote; the child writes once, and never after the parent
\* has read; a parent that returns through the timeout case returns the 408
\* response whatever resp holds.
C24_NoRaceOnResp ==
    /\ [](\A r \in Reqs : ~(ENABLED ParentSelectDone(r) /\ ENABLED ChildStore(r)))
    /\ [][\A r \in Reqs :
            /\ ParentReadsResp(r) =>
                  /\ cpc[r] = "send"
                  /\ ~ChildWritesResp(r)
                  /\ resp[r] = hret[r]
                  /\ delivered'[r] = resp[r]
            /\ ChildWritesResp(r) =>
                  /\ resp[r] = ZeroResponse
                  /\ resp'[r] = hret[r]
                  /\ via[r] # "done"
                  /\ ~ParentReadsResp(r)
            /\ resp'[r] # resp[r] => (ChildWritesResp(r) \/ ppc[r] = "idle")
            /\ ParentTakesTimeout(r) =>
                  /\ delivered'[r] = TimeoutResponse
                  /\ resp'[r] = resp[r]]_vars

\* C24 witness: the parent received the signal and returned the response the
\* child had written to resp.
C24_Witness ==
    \E r \in Reqs :
        /\ Returned(r)
        /\ via[r] = "done"
        /\ cpc[r] = "exit"
        /\ resp[r] # ZeroResponse
        /\ delivered[r] = resp[r]
        /\ ~storedAfterReturn[r]

\* in every state of a run: at most one write, a Create only after a
\* not-found read, an Update only after a read that found a secret failing
\* the checks, and the store other than at the start of the run only by a
\* write that succeeded
WritesOfRun ==
    /\ Len(writes) <= 1
    /\ \A i \in 1..Len(writes) :
          /\ writes[i].op \in {"create", "update"}
          /\ writes[i].op = "create" => (eRead = "notfound" /\ ~storeAtStart.exists)
          /\ writes[i].op = "update" =>
                (eRead = "found" /\ eGot = storeAtStart.obj /\ ~PassesAllChecks(eGot))
    /\ store # storeAtStart => (Len(writes) = 1 /\ writes[1].ok)
    /\ storeAtStart.exists => store.exists

\* in every step: a write is the first of the run and comes after the read
\* of the secret; the store changes only in the step of a write; a secret
\* in the store is never removed
WriteStep ==
    /\ (writes' # writes /\ writes' # <<>>) =>
          /\ writes = <<>>
          /\ Len(writes') = 1
          /\ eRead \in {"notfound", "found"}
          /\ eBuild = "ok"
    /\ store' # store => (writes' # writes /\ writes' # <<>>)
    /\ store.exists => store'.exists

\* C25: in every execution of EnsureWebhookSecret the store receives at
\* most one write, one Create (only after a not-found read) or one Update
\* (only after a successful read of an invalid secret), never both and
\* never a Delete, and the read precedes the write.
C25_AtMostOneWrite ==
    /\ []WritesOfRun
    /\ [][WriteStep]_vars

\* C25 witness: in a second run, after a first run that ended in an error,
\* the one write is an Update that succeeded.
C25_Witness ==
    /\ run = 2
    /\ prevErr # "nil"
    /\ epc = "done"
    /\ Len(writes) = 1
    /\ writes[1].op = "update"
    /\ writes[1].ok
    /\ store # storeAtStart
====
